---------------------------- MODULE Spec2Model ----------------------------
(***************************************************************************)
(* Model of the Google Drive AI summarizer: the FastAPI batch endpoint     *)
(* summarize_files (ai_service/main.py), the folder client                 *)
(* (ai_service/drive_client.py), the extension dispatch of the text        *)
(* extractor (ai_service/parsers.py) and the summarizer                    *)
(* (ai_service/summarizer.py).                                             *)
(*                                                                         *)
(* Strings are sequences of tokens: a file name is a sequence of           *)
(* one-character strings, a message is a sequence of tokens, and the empty *)
(* string is << >>.  An f-string is the concatenation of its parts.        *)
(***************************************************************************)
EXTENDS Integers, Sequences, FiniteSets, TLC

(***************************************************************************)
(* Bounds of the model.                                                    *)
(***************************************************************************)
\* Largest number of entries the Drive holds in a batch run.
MaxFiles == 2
\* Largest number of hand-picked entries at the head of the Drive in the
\* listing specification.
MaxHead == 1
\* How many matching files beyond one full page the largest Drive of the
\* listing specification holds.
MaxOverflow == 1
\* Largest number of rows of the ResultSets the backend answers the dashboard
\* with.
MaxRows == 7
\* How far below and above the input budget the lengths of the texts given
\* to summarize_text on its own reach.
MaxSlack == 2

(***************************************************************************)
(* Program constants.                                                      *)
(***************************************************************************)
\* pageSize=100 of the files().list request.
PageSize == 100
\* max_input_length of summarize_text.
MaxInputLength == 12000

MIME_PDF == "application/pdf"
MIME_DOCX == "application/vnd.openxmlformats-officedocument.wordprocessingml.document"
MIME_TXT == "text/plain"
\* Media types of the Drive backend that no filter value maps to.
MIME_FOLDER == "application/vnd.google-apps.folder"
MIME_PNG == "image/png"

\* download_dir default of download_file.
DownloadDir == "temp_downloads"

\* A type filter is [is_none |-> BOOLEAN, items |-> sequence of strings]:
\* file_types=None is NoneFilter, a list is ListFilter(items).
NoneFilter == [is_none |-> TRUE, items |-> << >>]
ListFilter(items) == [is_none |-> FALSE, items |-> items]
\* Python truth of a filter: None and [] are false.
Truthy(file_types) == ~file_types.is_none /\ file_types.items # << >>

(***************************************************************************)
(* str.lower() on the ASCII letters.                                       *)
(***************************************************************************)
UpperLetters == <<"A","B","C","D","E","F","G","H","I","J","K","L","M",
                  "N","O","P","Q","R","S","T","U","V","W","X","Y","Z">>
LowerLetters == <<"a","b","c","d","e","f","g","h","i","j","k","l","m",
                  "n","o","p","q","r","s","t","u","v","w","x","y","z">>

LowerChar(c) ==
    IF \E k \in 1..Len(UpperLetters) : UpperLetters[k] = c
    THEN LowerLetters[CHOOSE k \in 1..Len(UpperLetters) : UpperLetters[k] = c]
    ELSE c

Lower(s) == [k \in 1..Len(s) |-> LowerChar(s[k])]

(***************************************************************************)
(* The Drive backend: a sequence of entries; the listing returns them in   *)
(* this order.                                                             *)
(***************************************************************************)
Folders == {"F1", "F2"}

\* The fields the listing asks for: files(id, name, mimeType, size, ...).
\* An entry without a size (a folder) has no "size" field.
FileMeta(e) ==
    IF "size" \in DOMAIN e
    THEN [id |-> e.id, name |-> e.name, mimeType |-> e.mimeType, size |-> e.size]
    ELSE [id |-> e.id, name |-> e.name, mimeType |-> e.mimeType]

\* The query string built by list_files_in_folder, as its three conjuncts:
\* "'<folder_id>' in parents", "trashed=false" and the optional
\* "(mimeType='..' or ..)" clause (<< >> when the clause is not added).
MimeClause(file_types) ==
    LET RECURSIVE Build(_)
        Build(k) ==
            IF k = 0 THEN << >>
            ELSE LET ext == Lower(file_types.items[k])
                     rest == Build(k - 1)
                 IN  IF ext = <<"p","d","f">> THEN Append(rest, MIME_PDF)
                     ELSE IF ext = <<"d","o","c","x">> THEN Append(rest, MIME_DOCX)
                     ELSE IF ext = <<"t","x","t">> THEN Append(rest, MIME_TXT)
                     ELSE rest
    IN  IF Truthy(file_types) THEN Build(Len(file_types.items)) ELSE << >>

BuildQuery(folder_id, file_types) ==
    [parent |-> folder_id, trashed |-> FALSE, mimeTypes |-> MimeClause(file_types)]

\* The backend's evaluation of the query on one entry.
Matches(e, q) ==
    /\ e.parent = q.parent
    /\ e.trashed = q.trashed
    /\ \/ q.mimeTypes = << >>
       \/ \E k \in 1..Len(q.mimeTypes) : q.mimeTypes[k] = e.mimeType

\* The matching entries among entries[lo..hi], in the backend's order (the
\* range is halved to keep the evaluation shallow).
RECURSIVE SelectRange(_, _, _, _)
SelectRange(entries, q, lo, hi) ==
    IF lo > hi THEN << >>
    ELSE IF lo = hi
    THEN IF Matches(entries[lo], q) THEN <<FileMeta(entries[lo])>> ELSE << >>
    ELSE LET mid == (lo + hi) \div 2
         IN  SelectRange(entries, q, lo, mid) \o SelectRange(entries, q, mid + 1, hi)

SelectMatching(entries, q) == SelectRange(entries, q, 1, Len(entries))

\* files().list(q=..., pageSize=...).execute(): the first page of the
\* matching entries, and a nextPageToken when more remain.
FilesListExecute(entries, q, pageSize) ==
    LET all == SelectMatching(entries, q)
        n == IF Len(all) < pageSize THEN Len(all) ELSE pageSize
    IN  [files |-> SubSeq(all, 1, n), nextPageToken |-> Len(all) > n]

\* list_files_in_folder: one request, results.get('files', []).
list_files_in_folder(entries, folder_id, file_types) ==
    FilesListExecute(entries, BuildQuery(folder_id, file_types), PageSize).files

(***************************************************************************)
(* The text extractor's dispatch (parsers.py).                             *)
(***************************************************************************)
\* os.path.join(download_dir, file_name) for a name without a separator.
JoinPath(dir, name) == <<dir, "/">> \o name

\* The largest index of character c in path p, 0 when there is none.
LastIndex(p, c) ==
    IF \E k \in 1..Len(p) : p[k] = c
    THEN CHOOSE k \in 1..Len(p) : p[k] = c /\ \A m \in (k + 1)..Len(p) : p[m] # c
    ELSE 0

\* os.path.splitext(p)[1]: the extension starts at the last dot of the last
\* path component, unless only dots precede it there.
SplitExt(p) ==
    LET sepIndex == LastIndex(p, "/")
        dotIndex == LastIndex(p, ".")
    IN  IF /\ dotIndex > sepIndex
           /\ \E k \in (sepIndex + 1)..(dotIndex - 1) : p[k] # "."
        THEN SubSeq(p, dotIndex, Len(p))
        ELSE << >>

\* ParserFor without ext.lower(): the dispatch would be case-sensitive.
ParserForCaseSensitive(path) ==
    LET ext == SplitExt(path)
    IN  IF ext = <<".","p","d","f">> THEN "pdf"
        ELSE IF ext = <<".","d","o","c","x">> THEN "docx"
        ELSE IF ext = <<".","t","x","t">> THEN "txt"
        ELSE "unsupported"

\* The parser extract_text_from_file routes to, "unsupported" when it raises
\* ValueError.
ParserFor(path) ==
    LET ext == Lower(SplitExt(path))
    IN  IF ext = <<".","p","d","f">> THEN "pdf"
        ELSE IF ext = <<".","d","o","c","x">> THEN "docx"
        ELSE IF ext = <<".","t","x","t">> THEN "txt"
        ELSE "unsupported"

\* str(e) of the ValueError raised for an unsupported extension.
UnsupportedMessage(path) ==
    <<"Unsupported file type: ">> \o Lower(SplitExt(path))

\* str(e) of the FileNotFoundError raised for a missing file.
NotFoundMessage(path) == <<"File not found: ">> \o path

\* str(e) of the exception a parser raises, by parser.
ParserErrorMessage(parser, cause) ==
    IF parser = "pdf" THEN <<"Error extracting text from PDF: ">> \o cause
    ELSE IF parser = "docx" THEN <<"Error extracting text from DOCX: ">> \o cause
    ELSE <<"Error extracting text from TXT: ">> \o cause

(***************************************************************************)
(* Messages of the folder client and the summarizer.                       *)
(***************************************************************************)
\* str(e) of the exceptions of the libraries underneath: possibly empty.
Causes == {<< >>, <<"HttpError 404">>}

ListErrorMessage(cause) == <<"Error listing files from Google Drive: ">> \o cause
DownloadErrorMessage(file_name, cause) ==
    <<"Error downloading file ">> \o file_name \o <<": ">> \o cause
NoCredentialsMessage ==
    <<"No valid credentials found. Please authenticate via the web interface first.">>

\* SummaryErrorMessage without its label: the summary would be str(e) alone.
SummaryErrorMessageBare(cause) == cause

\* summarize_text's result on a failure: it returns, it does not raise.
SummaryErrorMessage(cause) == <<"Error generating summary: ">> \o cause
NoApiKeyMessage == <<"OPENAI_API_KEY environment variable is not set">>

\* The text a parser extracts and the content the model answers with.
ExtractedText == <<"Hello">>
ModelAnswer == <<"A concise summary.">>

(***************************************************************************)
(* The rows of the result list (main.py).                                  *)
(***************************************************************************)
\* file_info.get('size', 'N/A')
SizeOf(file_info) == IF "size" \in DOMAIN file_info THEN file_info.size ELSE "N/A"

SuccessRow(file_info, summary_text) ==
    [name |-> file_info.name, type |-> file_info.mimeType, size |-> SizeOf(file_info),
     summary |-> summary_text, status |-> "success"]

\* ErrorRow with the status of a processed file: the except handler would
\* hide the failure.
ErrorRowMarkedSuccess(file_info, message) ==
    [name |-> file_info.name, type |-> file_info.mimeType, size |-> SizeOf(file_info),
     summary |-> <<"Error processing file: ">> \o message, status |-> "success"]

ErrorRow(file_info, message) ==
    [name |-> file_info.name, type |-> file_info.mimeType, size |-> SizeOf(file_info),
     summary |-> <<"Error processing file: ">> \o message, status |-> "error"]

SummarizeResponse(rows) == [status |-> 200, files |-> rows, total_files |-> Len(rows)]
\* HTTPException answered as an empty ResultSet: a failed listing would look
\* like an empty folder.
HTTPExceptionAsEmptyResult(message) == [status |-> 200, files |-> << >>, total_files |-> 0]
HTTPException(message) == [status |-> 500, detail |-> message]
NoResponse == [status |-> 0]

(***************************************************************************)
(* State.                                                                  *)
(***************************************************************************)
VARIABLES
    drive,       \* the entries of the Drive backend, in listing order
    request,     \* the SummarizeRequest: [folder_id, file_types]
    pc,          \* the handler's position
    files,       \* the listing summarize_files iterates over
    idx,         \* the position of file_info in files
    file_path,   \* the path download_file returned
    text,        \* the extracted text
    summary,     \* the summary summarize_text returned
    results,     \* the rows appended so far
    origin,      \* for each row, the position in files of the file it is about
    disk,        \* the paths that exist under temp_downloads
    response,    \* what the handler answered
    hist,        \* the stages run so far: [file, stage, outcome]; file is 0
                 \* for the listing
    modelCalls,  \* the number of calls of chat.completions.create
    doc_name,    \* the filename argument of a call of summarize_text
    ret,         \* what a function called on its own returned or raised
    session,     \* the dashboard's request.session, a mapping from keys
    http,        \* the dashboard's answer to the last request
    event,       \* the last dashboard request and how its backend call went
    lastOk       \* the ResultSet of the last summarize request answered 200

\* The variables of the functions called on their own and of the dashboard.
callVars == <<doc_name, ret>>
dashVars == <<session, http, event, lastOk>>

vars == <<drive, request, pc, files, idx, file_path, text, summary, results,
          origin, disk, response, hist, modelCalls, callVars, dashVars>>

\* No function call studied on its own yet; the dashboard has a fresh session
\* and has answered nothing.
NoCall == [kind |-> "none"]
EmptySession == [k \in {} |-> << >>]
NoAnswer == [status |-> 0]
NoEvent == [op |-> "none"]
NoResultSet == [has |-> FALSE]

Untouched ==
    /\ doc_name = << >>
    /\ ret = NoCall
    /\ session = EmptySession
    /\ http = NoAnswer
    /\ event = NoEvent
    /\ lastOk = NoResultSet

(***************************************************************************)
(* The entries a Drive is made of.                                         *)
(***************************************************************************)
NAME_A_PDF == <<"a", ".", "p", "d", "f">>
NAME_B_DOCX == <<"b", ".", "D", "O", "C", "X">>
NAME_C_TXT == <<"c", ".", "t", "x", "t">>
NAME_NOTES == <<"n", "o", "t", "e", "s">>
NAME_D_PNG == <<"d", ".", "p", "n", "g">>
NAME_SUB == <<"s", "u", "b">>

PdfFile == [name |-> NAME_A_PDF, mimeType |-> MIME_PDF, size |-> "1024",
            parent |-> "F1", trashed |-> FALSE]
DocxFile == [name |-> NAME_B_DOCX, mimeType |-> MIME_DOCX, size |-> "2048",
             parent |-> "F1", trashed |-> FALSE]
TxtFile == [name |-> NAME_C_TXT, mimeType |-> MIME_TXT, size |-> "12",
            parent |-> "F1", trashed |-> FALSE]
\* A text file whose name has no extension.
NotesFile == [name |-> NAME_NOTES, mimeType |-> MIME_TXT, size |-> "7",
              parent |-> "F1", trashed |-> FALSE]
PngFile == [name |-> NAME_D_PNG, mimeType |-> MIME_PNG, size |-> "4096",
            parent |-> "F1", trashed |-> FALSE]
\* A sub-folder: the backend reports no size for it.
SubFolder == [name |-> NAME_SUB, mimeType |-> MIME_FOLDER,
              parent |-> "F1", trashed |-> FALSE]
TrashedPdf == [name |-> NAME_A_PDF, mimeType |-> MIME_PDF, size |-> "1024",
               parent |-> "F1", trashed |-> TRUE]
OtherFolderPdf == [name |-> NAME_A_PDF, mimeType |-> MIME_PDF, size |-> "1024",
                   parent |-> "F2", trashed |-> FALSE]

BatchKinds == {PdfFile, DocxFile, NotesFile, SubFolder, TrashedPdf}
AllKinds == {PdfFile, DocxFile, TxtFile, NotesFile, PngFile, SubFolder,
             TrashedPdf, OtherFolderPdf}

\* The Drives of at most n entries of the given kinds; an entry's id is its
\* position.
Drives(kinds, n) ==
    UNION { { [k \in 1..m |-> [id |-> k] @@ f[k]] : f \in [1..m -> kinds] } : m \in 0..n }

FT_PDF == <<"p", "d", "f">>
FT_DOCX == <<"d", "o", "c", "x">>
FT_TXT == <<"t", "x", "t">>
\* The default of SummarizeRequest.file_types.
DefaultFileTypes == <<FT_PDF, FT_DOCX, FT_TXT>>

BatchFilters == {ListFilter(DefaultFileTypes), ListFilter(<< >>),
                 ListFilter(<< <<"P", "D", "F">> >>)}

(***************************************************************************)
(* summarize_files (main.py): one action per step of the handler.          *)
(***************************************************************************)
Init ==
    /\ drive \in Drives(BatchKinds, MaxFiles)
    /\ request \in [folder_id : {"F1"}, file_types : BatchFilters]
    /\ pc = "list"
    /\ files = << >>
    /\ idx = 0
    /\ file_path = << >>
    /\ text = << >>
    /\ summary = << >>
    /\ results = << >>
    /\ origin = << >>
    /\ disk = {}
    /\ response = NoResponse
    /\ hist = << >>
    /\ modelCalls = 0
    /\ Untouched

Log(stage, outcome) == Append(hist, [file |-> idx, stage |-> stage, outcome |-> outcome])

\* The end of one iteration of "for file_info in files".
NextIteration ==
    IF idx < Len(files)
    THEN idx' = idx + 1 /\ pc' = "download"
    ELSE idx' = idx /\ pc' = "return"

\* The handler of "except Exception as e" inside the loop.
ExceptInLoop(rows, message) ==
    /\ results' = Append(rows, ErrorRow(files[idx], message))
    /\ origin' = [k \in 1..(Len(rows) + 1) |-> IF k <= Len(origin) THEN origin[k] ELSE idx]
    /\ NextIteration

\* GoogleDriveClient() raises: no valid credentials.
ClientInitFails ==
    /\ pc = "list"
    /\ response' = HTTPException(NoCredentialsMessage)
    /\ hist' = Log("list", "error")
    /\ pc' = "done"
    /\ UNCHANGED <<callVars, dashVars, drive, request, files, idx, file_path, text, summary, results,
                   origin, disk, modelCalls>>

\* list_files_in_folder raises.
ListFails ==
    /\ pc = "list"
    /\ \E cause \in Causes : response' = HTTPException(ListErrorMessage(cause))
    /\ hist' = Log("list", "error")
    /\ pc' = "done"
    /\ UNCHANGED <<callVars, dashVars, drive, request, files, idx, file_path, text, summary, results,
                   origin, disk, modelCalls>>

\* list_files_in_folder returns; an empty listing is answered at once.
ListOk ==
    /\ pc = "list"
    /\ files' = list_files_in_folder(drive, request.folder_id, request.file_types)
    /\ IF files' = << >>
       THEN /\ response' = SummarizeResponse(<< >>)
            /\ pc' = "done"
            /\ idx' = idx
       ELSE /\ response' = response
            /\ pc' = "download"
            /\ idx' = 1
    /\ hist' = Log("list", "ok")
    /\ UNCHANGED <<callVars, dashVars, drive, request, file_path, text, summary, results, origin, disk,
                   modelCalls>>

\* download_file returns the path of the file it wrote.
DownloadOk ==
    /\ pc = "download"
    /\ file_path' = JoinPath(DownloadDir, files[idx].name)
    /\ disk' = disk \cup {file_path'}
    /\ hist' = Log("download", "ok")
    /\ pc' = "extract"
    /\ UNCHANGED <<callVars, dashVars, drive, request, files, idx, text, summary, results, origin,
                   response, modelCalls>>

\* download_file raises, before it created the file (created = FALSE) or
\* after io.FileIO(file_path, 'wb') created it (created = TRUE).
DownloadFails ==
    /\ pc = "download"
    /\ \E created \in BOOLEAN, cause \in Causes :
          /\ disk' = IF created
                     THEN disk \cup {JoinPath(DownloadDir, files[idx].name)}
                     ELSE disk
          /\ ExceptInLoop(results, DownloadErrorMessage(files[idx].name, cause))
    /\ hist' = Log("download", "error")
    /\ UNCHANGED <<callVars, dashVars, drive, request, files, file_path, text, summary, response,
                   modelCalls>>

\* extract_text_from_file returns the text of the parser it routed to.
ExtractOk ==
    /\ pc = "extract"
    /\ file_path \in disk
    /\ ParserFor(file_path) # "unsupported"
    /\ text' = ExtractedText
    /\ hist' = Log("extract", "ok")
    /\ pc' = "summarize"
    /\ UNCHANGED <<callVars, dashVars, drive, request, files, idx, file_path, summary, results, origin,
                   disk, response, modelCalls>>

\* extract_text_from_file raises: the file is missing, its extension is not
\* supported, or the parser failed.
ExtractFails ==
    /\ pc = "extract"
    /\ \E cause \in Causes :
          ExceptInLoop(results,
              IF file_path \notin disk THEN NotFoundMessage(file_path)
              ELSE IF ParserFor(file_path) = "unsupported"
                   THEN UnsupportedMessage(file_path)
                   ELSE ParserErrorMessage(ParserFor(file_path), cause))
    /\ hist' = Log("extract", "error")
    /\ UNCHANGED <<callVars, dashVars, drive, request, files, file_path, text, summary, disk, response,
                   modelCalls>>

(***************************************************************************)
(* summarize_text (summarizer.py).  outcome says how the call went:        *)
(* "no_key" when get_openai_client raises before any request, "call_failed"*)
(* when chat.completions.create (or reading its answer) raises, "ok"       *)
(* otherwise.  Every exception is caught and returned as the summary.      *)
(***************************************************************************)
SummarizeOutcomes == {"ok", "call_failed", "no_key"}

\* summarize_text with one retry of a failed model call.
summarize_text_retrying(content, filename, outcome, cause) ==
    IF outcome = "no_key"
    THEN [summary |-> <<"Error generating summary: ">> \o NoApiKeyMessage, calls |-> 0]
    ELSE IF outcome = "call_failed"
    THEN [summary |-> <<"Error generating summary: ">> \o cause, calls |-> 2]
    ELSE [summary |-> ModelAnswer, calls |-> 1]

summarize_text(content, filename, outcome, cause) ==
    IF outcome = "no_key"
    THEN [summary |-> SummaryErrorMessage(NoApiKeyMessage), calls |-> 0]
    ELSE IF outcome = "call_failed"
    THEN [summary |-> SummaryErrorMessage(cause), calls |-> 1]
    ELSE [summary |-> ModelAnswer, calls |-> 1]

SummarizeText ==
    /\ pc = "summarize"
    /\ \E outcome \in SummarizeOutcomes, cause \in Causes :
          LET r == summarize_text(text, files[idx].name, outcome, cause)
          IN  /\ summary' = r.summary
              /\ modelCalls' = modelCalls + r.calls
              /\ hist' = Log("summarize", outcome)
    /\ pc' = "record"
    /\ UNCHANGED <<callVars, dashVars, drive, request, files, idx, file_path, text, results, origin,
                   disk, response>>

\* str(e) of the OSError of os.remove.
RemoveErrorMessage(path) == <<"[Errno 13] Permission denied: ">> \o path

\* results.append({... 'status': 'success'}), then the clean-up removes the
\* downloaded file.
RecordAndCleanup ==
    /\ pc = "record"
    /\ results' = Append(results, SuccessRow(files[idx], summary))
    /\ origin' = Append(origin, idx)
    /\ disk' = disk \ {file_path}
    /\ hist' = Log("cleanup", "ok")
    /\ NextIteration
    /\ UNCHANGED <<callVars, dashVars, drive, request, files, file_path, text, summary, response,
                   modelCalls>>

\* results.append({... 'status': 'success'}), then os.remove raises: the
\* loop's except handler runs after the success row was appended.
RecordAndCleanupFails ==
    /\ pc = "record"
    /\ file_path \in disk
    /\ ExceptInLoop(Append(results, SuccessRow(files[idx], summary)),
                    RemoveErrorMessage(file_path))
    /\ hist' = Log("cleanup", "error")
    /\ UNCHANGED <<callVars, dashVars, drive, request, files, file_path, text, summary, disk, response,
                   modelCalls>>

\* return SummarizeResponse(files=results, total_files=len(results))
ReturnResponse ==
    /\ pc = "return"
    /\ response' = SummarizeResponse(results)
    /\ pc' = "done"
    /\ UNCHANGED <<callVars, dashVars, drive, request, files, idx, file_path, text, summary, results,
                   origin, disk, hist, modelCalls>>

Next ==
    \/ ClientInitFails
    \/ ListFails
    \/ ListOk
    \/ DownloadOk
    \/ DownloadFails
    \/ ExtractOk
    \/ ExtractFails
    \/ SummarizeText
    \/ RecordAndCleanup
    \/ RecordAndCleanupFails
    \/ ReturnResponse

Spec == Init /\ [][Next]_vars

(***************************************************************************)
(* list_files_in_folder on its own: the Drive is a head of hand-picked     *)
(* entries followed by a run of PDF files of the requested folder, so that *)
(* the matching files fill less than, exactly, or more than one page.      *)
(***************************************************************************)
FT_XLSX == <<"x", "l", "s", "x">>

ListFilters == {NoneFilter, ListFilter(<< >>), ListFilter(DefaultFileTypes),
                ListFilter(<< <<"P", "D", "F">> >>), ListFilter(<<FT_TXT>>),
                ListFilter(<<FT_XLSX>>), ListFilter(<<FT_PDF, FT_XLSX>>)}

\* n PDF files of folder F1 with the ids first + 1 .. first + n.
PdfRun(first, n) == [k \in 1..n |-> [id |-> first + k] @@ PdfFile]

RunLengths == {0, PageSize, PageSize + MaxOverflow}

InitList ==
    /\ \E head \in Drives(AllKinds, MaxHead), n \in RunLengths :
          drive = head \o PdfRun(Len(head), n)
    /\ request \in [folder_id : Folders, file_types : ListFilters]
    /\ pc = "list"
    /\ files = << >>
    /\ idx = 0
    /\ file_path = << >>
    /\ text = << >>
    /\ summary = << >>
    /\ results = << >>
    /\ origin = << >>
    /\ disk = {}
    /\ response = NoResponse
    /\ hist = << >>
    /\ modelCalls = 0
    /\ Untouched

\* One call of list_files_in_folder that returns.
ListCall ==
    /\ pc = "list"
    /\ files' = list_files_in_folder(drive, request.folder_id, request.file_types)
    /\ pc' = "listed"
    /\ UNCHANGED <<callVars, dashVars, drive, request, idx, file_path, text, summary, results, origin,
                   disk, response, hist, modelCalls>>

NextList == ListCall

SpecList == InitList /\ [][NextList]_vars

(***************************************************************************)
(* extract_text_from_file on its own (parsers.py): one call on a path that *)
(* exists on disk or not.  The result records the parsers invoked.         *)
(***************************************************************************)
extract_text_from_file(path, exists, parser_ok, cause) ==
    IF ~exists
    THEN [kind |-> "raised", exception |-> "FileNotFoundError",
          message |-> NotFoundMessage(path), parsers |-> << >>]
    ELSE IF ParserFor(path) = "unsupported"
    THEN [kind |-> "raised", exception |-> "ValueError",
          message |-> UnsupportedMessage(path), parsers |-> << >>]
    ELSE IF parser_ok
    THEN [kind |-> "returned", value |-> ExtractedText, parsers |-> <<ParserFor(path)>>]
    ELSE [kind |-> "raised", exception |-> "Exception",
          message |-> ParserErrorMessage(ParserFor(path), cause),
          parsers |-> <<ParserFor(path)>>]

\* File names: a stem followed by an ending.
NameStems == {<<"a">>, << >>, <<".">>, <<"a", ".", "b">>}
NameEndings == {<< >>, <<".">>,
                <<".", "p", "d", "f">>, <<".", "P", "D", "F">>, <<".", "P", "d", "f">>,
                <<".", "d", "o", "c", "x">>, <<".", "D", "O", "C", "X">>,
                <<".", "t", "x", "t">>, <<".", "T", "x", "T">>,
                <<".", "x", "y", "z">>, <<".", "X", "Y", "Z">>,
                <<".", "d", "o", "c">>, <<".", "p", "d", "f", "x">>,
                <<"p", "d", "f">>}
ExtractNames == {stem \o ending : stem \in NameStems, ending \in NameEndings} \ {<< >>}

InitExtract ==
    /\ drive = << >>
    /\ request = [folder_id |-> "F1", file_types |-> ListFilter(DefaultFileTypes)]
    /\ pc = "call"
    /\ files = << >>
    /\ idx = 0
    /\ \E name \in ExtractNames : file_path = JoinPath(DownloadDir, name)
    /\ text = << >>
    /\ summary = << >>
    /\ results = << >>
    /\ origin = << >>
    /\ disk \in {{}, {file_path}}
    /\ response = NoResponse
    /\ hist = << >>
    /\ modelCalls = 0
    /\ Untouched

\* One call of extract_text_from_file.
ExtractCall ==
    /\ pc = "call"
    /\ \E parser_ok \in BOOLEAN, cause \in Causes :
          ret' = extract_text_from_file(file_path, file_path \in disk, parser_ok, cause)
    /\ pc' = "returned"
    /\ UNCHANGED <<doc_name, dashVars, drive, request, files, idx, file_path, text,
                   summary, results, origin, disk, response, hist, modelCalls>>

NextExtract == ExtractCall

SpecExtract == InitExtract /\ [][NextExtract]_vars

(***************************************************************************)
(* summarize_text on its own (summarizer.py): the truncation of the input  *)
(* and the prompt.  A text is a sequence of characters; the truncation     *)
(* marker "...\n[Content truncated]" and the fixed parts of the prompt are  *)
(* one token each.                                                         *)
(***************************************************************************)
TruncationMarker == <<"...\n[Content truncated]">>

\* TruncateInput cutting at the budget already: a text of exactly 12000
\* characters would get the marker.
TruncateInputAtBudget(content) ==
    IF Len(content) >= MaxInputLength
    THEN SubSeq(content, 1, MaxInputLength) \o TruncationMarker
    ELSE content

\* if len(text) > max_input_length: text = text[:max_input_length] + marker
TruncateInput(content) ==
    IF Len(content) > MaxInputLength
    THEN SubSeq(content, 1, MaxInputLength) \o TruncationMarker
    ELSE content

PromptHead ==
    <<"Please provide a concise summary of the following document.\nFocus on the main points, key findings, and important information.\n\nDocument: ">>
PromptMiddle == <<"\n\nContent:\n">>
PromptTail == <<"\n\nSummary:">>

\* {filename if filename else 'Untitled'}
DocumentLabel(filename) == IF filename # << >> THEN filename ELSE <<"Untitled">>

BuildPrompt(content, filename) ==
    PromptHead \o DocumentLabel(filename) \o PromptMiddle \o TruncateInput(content)
        \o PromptTail

\* One call of summarize_text with the prompt it built; get_openai_client
\* raising ("no_key") leaves the try block before the prompt is built.
summarize_text_call(content, filename, outcome, cause) ==
    [kind |-> "returned",
     prompted |-> outcome # "no_key",
     prompt |-> IF outcome # "no_key" THEN BuildPrompt(content, filename) ELSE << >>,
     summary |-> summarize_text(content, filename, outcome, cause).summary,
     calls |-> summarize_text(content, filename, outcome, cause).calls]

\* The texts: n characters that repeat "a", "b", "c" from the given start.
Letters == <<"a", "b", "c">>
TextOf(n, start) == [k \in 1..n |-> Letters[((k + start) % 3) + 1]]
TextLengths == {0, 1} \cup ((MaxInputLength - MaxSlack)..(MaxInputLength + MaxSlack))

InitSummarize ==
    /\ drive = << >>
    /\ request = [folder_id |-> "F1", file_types |-> ListFilter(DefaultFileTypes)]
    /\ pc = "call"
    /\ files = << >>
    /\ idx = 0
    /\ file_path = << >>
    /\ \E n \in TextLengths, start \in 0..2 : text = TextOf(n, start)
    /\ summary = << >>
    /\ results = << >>
    /\ origin = << >>
    /\ disk = {}
    /\ response = NoResponse
    /\ hist = << >>
    /\ modelCalls = 0
    /\ doc_name \in {<< >>, NAME_A_PDF}
    /\ ret = NoCall
    /\ session = EmptySession
    /\ http = NoAnswer
    /\ event = NoEvent
    /\ lastOk = NoResultSet

\* One call of summarize_text.
SummarizeCall ==
    /\ pc = "call"
    /\ \E outcome \in SummarizeOutcomes, cause \in Causes :
          ret' = summarize_text_call(text, doc_name, outcome, cause)
    /\ pc' = "returned"
    /\ UNCHANGED <<doc_name, dashVars, drive, request, files, idx, file_path, text,
                   summary, results, origin, disk, response, hist, modelCalls>>

NextSummarize == SummarizeCall

SpecSummarize == InitSummarize /\ [][NextSummarize]_vars

(***************************************************************************)
(* The dashboard (dashboard/views.py): summarize, download_csv and         *)
(* download_pdf of one session.                                            *)
(***************************************************************************)
\* The ResultSets the backend answers with: n rows made by summarize_files,
\* success and error rows in turn; the k-th file is named f<k>.pdf.
ListedFile(k) ==
    [id |-> k, name |-> <<"f", ToString(k), ".", "p", "d", "f">>,
     mimeType |-> MIME_PDF, size |-> "1024"]

BackendRow(k, flip) ==
    IF (k % 2 = 1) = flip
    THEN SuccessRow(ListedFile(k), ModelAnswer)
    ELSE ErrorRow(ListedFile(k), DownloadErrorMessage(ListedFile(k).name, << >>))

BackendResult(n, flip) ==
    [files |-> [k \in 1..n |-> BackendRow(k, flip)], total_files |-> n]

ResultSets == {BackendResult(n, flip) : n \in 0..MaxRows, flip \in BOOLEAN}

\* The exceptions of requests.post, by the classes the except clauses name:
\* conn says it is a requests.exceptions.ConnectionError, timeout that it is
\* a requests.exceptions.Timeout.  ConnectTimeout is both.
RequestsExceptions ==
    {[name |-> "ConnectionError", conn |-> TRUE, timeout |-> FALSE,
      text |-> <<"Connection refused">>],
     [name |-> "ConnectTimeout", conn |-> TRUE, timeout |-> TRUE,
      text |-> <<"Connection to backend timed out">>],
     [name |-> "ReadTimeout", conn |-> FALSE, timeout |-> TRUE,
      text |-> <<"Read timed out">>],
     [name |-> "TooManyRedirects", conn |-> FALSE, timeout |-> FALSE,
      text |-> <<"Exceeded 30 redirects">>]}

\* str(e) of the exception json.loads raises on a body that is no JSON.
JsonErrorText == <<"Expecting value: line 1 column 1 (char 0)">>

\* What the backend does with the forwarded request.
BackendOutcomes ==
    {[kind |-> "response", status |-> 200, result |-> rs] : rs \in ResultSets}
    \cup {[kind |-> "response", status |-> 500,
           text |-> <<"{\"detail\":\"">> \o ListErrorMessage(<< >>) \o <<"\"}">>],
          [kind |-> "response", status |-> 422,
           text |-> <<"{\"detail\":[{\"type\":\"list_type\"}]}">>]}
    \cup {[kind |-> "raised", exc |-> e] : e \in RequestsExceptions}
NotCalled == [kind |-> "not_called"]

\* The bodies of the summarize request: JSON with a folder_id, JSON without
\* one, and a body that is no JSON.
SummarizeBodies ==
    {[json |-> TRUE, folder_id |-> "F1"], [json |-> TRUE, folder_id |-> ""],
     [json |-> FALSE]}

\* JsonResponse({'error': ...}, status=...)
JsonError(status, message) == [status |-> status, error |-> message]

\* The three except clauses of summarize, tried with Timeout first: a
\* connect timeout would be answered 504.
ExceptClauseTimeoutFirst(e) ==
    IF e.timeout
    THEN JsonError(504, <<"Request timeout. The folder may be too large.">>)
    ELSE IF e.conn
    THEN JsonError(503, <<"Cannot connect to AI service. Make sure FastAPI is running.">>)
    ELSE JsonError(500, <<"An error occurred: ">> \o e.text)

\* The three except clauses of summarize, in their order.
ExceptClause(e) ==
    IF e.conn
    THEN JsonError(503, <<"Cannot connect to AI service. Make sure FastAPI is running.">>)
    ELSE IF e.timeout
    THEN JsonError(504, <<"Request timeout. The folder may be too large.">>)
    ELSE JsonError(500, <<"An error occurred: ">> \o e.text)

\* file_data['url'] = ... for the rows that carry an id.
AddUrl(file_data) ==
    IF "id" \in DOMAIN file_data
    THEN [k \in DOMAIN file_data \cup {"url"} |->
            IF k = "url"
            THEN <<"https://drive.google.com/file/d/", file_data.id, "/view">>
            ELSE file_data[k]]
    ELSE file_data

AddUrls(result) ==
    [result EXCEPT !.files = [k \in 1..Len(result.files) |-> AddUrl(result.files[k])]]

\* summarize: the answer and the session it leaves.
dash_summarize(body, backend, sess) ==
    IF ~body.json
    THEN [http |-> ExceptClause([conn |-> FALSE, timeout |-> FALSE, text |-> JsonErrorText]),
          session |-> sess]
    ELSE IF body.folder_id = ""
    THEN [http |-> JsonError(400, <<"folder_id is required">>), session |-> sess]
    ELSE IF backend.kind = "raised"
    THEN [http |-> ExceptClause(backend.exc), session |-> sess]
    ELSE IF backend.status = 200
    THEN [http |-> [status |-> 200, json |-> AddUrls(backend.result)],
          session |-> [k \in DOMAIN sess \cup {"last_results"} |->
                          IF k = "last_results" THEN AddUrls(backend.result) ELSE sess[k]]]
    ELSE [http |-> JsonError(backend.status, <<"FastAPI service error: ">> \o backend.text),
          session |-> sess]

\* request.session.get('last_results')
SessionGet(sess, key) ==
    IF key \in DOMAIN sess THEN [has |-> TRUE, value |-> sess[key]] ELSE [has |-> FALSE]

\* "not results" that also rejects a ResultSet without files.
NoResultsOrNoFiles(got) == ~got.has \/ got.value.files = << >>

\* "not results": None, or an empty mapping.
NoResults(got) == ~got.has \/ DOMAIN got.value = {}

\* file_data.get(key, default)
Get(file_data, key, default) ==
    IF key \in DOMAIN file_data THEN file_data[key] ELSE default

NoResultsAnswer ==
    [status |-> 400,
     body |-> <<"No results available. Please run a summarization first.">>]

\* The header without the File URL column.
CsvHeaderWithoutUrl == <<"File Name", "Type", "Size", "Summary", "Status">>

CsvHeader == <<"File Name", "Type", "Size", "Summary", "File URL", "Status">>

CsvRow(file_data) ==
    <<Get(file_data, "name", ""), Get(file_data, "type", ""), Get(file_data, "size", ""),
      Get(file_data, "summary", ""), Get(file_data, "url", ""), Get(file_data, "status", "")>>

\* download_csv: the rows written, as sequences of cells.
dash_download_csv(sess) ==
    LET got == SessionGet(sess, "last_results")
    IN  IF NoResults(got) THEN NoResultsAnswer
        ELSE [status |-> 200, content_type |-> "text/csv",
              rows |-> <<CsvHeader>> \o
                       [k \in 1..Len(got.value.files) |-> CsvRow(got.value.files[k])]]

\* A page break after every third block, the last one included.
PageBreakAfterEveryThird(k, n) == k % 3 = 0

\* if idx % 3 == 0 and idx < len(files)
PageBreakAfter(k, n) == k % 3 = 0 /\ k < n

Paragraph(k, part, content) ==
    [kind |-> "Paragraph", block |-> k, part |-> part, content |-> content]
Spacer(k) == [kind |-> "Spacer", block |-> k]
PageBreak(k) == [kind |-> "PageBreak", block |-> k]

\* The elements appended for the k-th of n files.
BlockElements(k, file_data, n) ==
    <<Paragraph(k, "header", Get(file_data, "name", <<"Unknown">>)), Spacer(k),
      Paragraph(k, "status", <<Get(file_data, "status", "unknown")>>), Spacer(k)>>
    \o (IF "url" \in DOMAIN file_data
        THEN <<Paragraph(k, "link", file_data.url), Spacer(k)>>
        ELSE << >>)
    \o <<Paragraph(k, "summary_label", <<"Summary:">>),
         Paragraph(k, "summary", Get(file_data, "summary", <<"No summary available">>)),
         Spacer(k)>>
    \o (IF PageBreakAfter(k, n) THEN <<PageBreak(k)>> ELSE << >>)

RECURSIVE AllBlocks(_, _)
AllBlocks(rows, k) ==
    IF k = 0 THEN << >>
    ELSE AllBlocks(rows, k - 1) \o BlockElements(k, rows[k], Len(rows))

\* The elements before the file blocks: title, date, totals, heading.
Preamble(rows) ==
    <<Paragraph(0, "title", <<"Google Drive AI Summarizer Report">>),
      Paragraph(0, "generated", <<"Generated: ">>),
      Spacer(0),
      [kind |-> "Table", block |-> 0,
       total |-> Len(rows),
       successful |-> Cardinality({k \in 1..Len(rows) :
                                      Get(rows[k], "status", "") = "success"}),
       errors |-> Cardinality({k \in 1..Len(rows) :
                                  Get(rows[k], "status", "") = "error"})],
      Spacer(0),
      Paragraph(0, "heading", <<"File Summaries">>),
      Spacer(0)>>

\* download_pdf: the elements handed to doc.build.
dash_download_pdf(sess) ==
    LET got == SessionGet(sess, "last_results")
    IN  IF NoResults(got) THEN NoResultsAnswer
        ELSE [status |-> 200, content_type |-> "application/pdf",
              elements |-> Preamble(got.value.files)
                           \o AllBlocks(got.value.files, Len(got.value.files))]

InitDash ==
    /\ drive = << >>
    /\ request = [folder_id |-> "F1", file_types |-> ListFilter(DefaultFileTypes)]
    /\ pc = "serving"
    /\ files = << >>
    /\ idx = 0
    /\ file_path = << >>
    /\ text = << >>
    /\ summary = << >>
    /\ results = << >>
    /\ origin = << >>
    /\ disk = {}
    /\ response = NoResponse
    /\ hist = << >>
    /\ modelCalls = 0
    /\ Untouched

batchVars == <<drive, request, pc, files, idx, file_path, text, summary, results,
               origin, disk, response, hist, modelCalls>>

\* POST summarize/
DashSummarize ==
    /\ \E body \in SummarizeBodies, backend \in BackendOutcomes :
          LET called == body.json /\ body.folder_id # ""
              out == dash_summarize(body, backend, session)
          IN  /\ http' = out.http
              /\ session' = out.session
              /\ event' = [op |-> "summarize", body |-> body,
                           backend |-> IF called THEN backend ELSE NotCalled]
              /\ lastOk' = IF called /\ backend.kind = "response" /\ backend.status = 200
                           THEN [has |-> TRUE, result |-> backend.result]
                           ELSE lastOk
    /\ UNCHANGED <<batchVars, callVars>>

\* GET download-csv/
DashDownloadCsv ==
    /\ http' = dash_download_csv(session)
    /\ event' = [op |-> "download_csv"]
    /\ UNCHANGED <<batchVars, callVars, session, lastOk>>

\* download_pdf
DashDownloadPdf ==
    /\ http' = dash_download_pdf(session)
    /\ event' = [op |-> "download_pdf"]
    /\ UNCHANGED <<batchVars, callVars, session, lastOk>>

NextDash ==
    \/ DashSummarize
    \/ DashDownloadCsv
    \/ DashDownloadPdf

SpecDash == InitDash /\ [][NextDash]_vars

(***************************************************************************)
(* Vocabulary of the properties.                                           *)
(***************************************************************************)
\* The batch returned a ResultSet.
Returned == pc = "done" /\ response.status = 200

\* The rows recorded for the k-th listed file.
RowsOf(k) == {r \in 1..Len(results) : origin[r] = k}

\* The stages logged with the given name and outcome.
Logged(stage, outcomes) ==
    {h \in 1..Len(hist) : hist[h].stage = stage /\ hist[h].outcome \in outcomes}

\* The iteration of the k-th listed file is over.
IterationOver(k) == idx > k \/ pc \in {"return", "done"}

\* Row row describes the listed file file_info.
Describes(row, file_info) ==
    /\ row.name = file_info.name
    /\ row.type = file_info.mimeType
    /\ row.size = SizeOf(file_info)

(***************************************************************************)
(* C1: when listing succeeds, the response holds exactly one row per       *)
(* listed file and total_files equals the number of rows, whatever the     *)
(* download, extraction, summarization and clean-up outcomes are.          *)
(* Stated as claimed; the clean-up raising after the success row was       *)
(* appended adds a second row for the same file.                           *)
(***************************************************************************)
C1_OneRowPerListedFile ==
    Returned =>
        /\ Len(response.files) = Len(files)
        /\ response.total_files = Len(response.files)
        /\ \A k \in 1..Len(files) : Cardinality(RowsOf(k)) = 1

(***************************************************************************)
(* C2: a file whose download or extraction fails gets exactly one row, of  *)
(* status "error" with a non-empty summary; the batch goes on to every     *)
(* later listed file and answers 200.                                      *)
(***************************************************************************)
C2_FailedFileIsErrorRow ==
    \A h \in Logged("download", {"error"}) \cup Logged("extract", {"error"}) :
        LET k == hist[h].file
        IN  /\ Cardinality(RowsOf(k)) = 1
            /\ \A r \in RowsOf(k) :
                  /\ results[r].status = "error"
                  /\ results[r].summary # << >>
                  /\ Describes(results[r], files[k])
            /\ pc = "done" =>
                  /\ response.status = 200
                  /\ \A r \in RowsOf(k) : response.files[r] = results[r]
                  /\ \A later \in (k + 1)..Len(files) :
                        /\ \E g \in 1..Len(hist) :
                              hist[g].file = later /\ hist[g].stage = "download"
                        /\ RowsOf(later) # {}

\* A batch of two files has returned: the extraction of the first failed on
\* its unsupported extension and the second was summarized.
C2_Witness ==
    /\ Returned
    /\ Len(files) = 2
    /\ \E h \in Logged("extract", {"error"}) : hist[h].file = 1
    /\ results[1].summary[2] = "Unsupported file type: "
    /\ \E r \in RowsOf(2) : results[r].status = "success"

(***************************************************************************)
(* C3: the downloaded copy of a file is removed before the next download   *)
(* starts and before the batch returns, whether its processing succeeded   *)
(* or failed.  Stated as claimed; the removal is on the success path only. *)
(***************************************************************************)
C3_NoDownloadedFileRemains ==
    (pc = "download" \/ pc = "return" \/ pc = "done") => disk = {}

(***************************************************************************)
(* C4, as claimed: a failure of the summarize stage is recorded as a row   *)
(* of status "error" for that file.                                        *)
(***************************************************************************)
C4_SummarizeFailureIsErrorRow ==
    \A h \in Logged("summarize", {"call_failed", "no_key"}) :
        IterationOver(hist[h].file) =>
            /\ RowsOf(hist[h].file) # {}
            /\ \A r \in RowsOf(hist[h].file) : results[r].status = "error"

(***************************************************************************)
(* C4, amended: a failure of the summarize stage does not abort the batch; *)
(* summarize_text returns the message "Error generating summary: ..." and  *)
(* the file's row carries it as its summary with status "success".  The    *)
(* file has a row of status "error" only when its clean-up failed.         *)
(***************************************************************************)
C4_SummarizeFailureIsSuccessRow ==
    \A h \in Logged("summarize", {"call_failed", "no_key"}) :
        LET k == hist[h].file
        IN  IterationOver(k) =>
                /\ \E r \in RowsOf(k) :
                      /\ results[r].status = "success"
                      /\ results[r].summary # << >>
                      /\ results[r].summary[1] = "Error generating summary: "
                      /\ \A q \in RowsOf(k) : r <= q
                /\ (\E r \in RowsOf(k) : results[r].status = "error") =>
                      \E g \in Logged("cleanup", {"error"}) : hist[g].file = k
                /\ pc = "done" => response.status = 200

\* The model call of the first of two files failed and the batch returned
\* both files.
C4_Witness ==
    /\ Returned
    /\ Len(files) = 2
    /\ \E h \in Logged("summarize", {"call_failed"}) : hist[h].file = 1
    /\ RowsOf(2) # {}

(***************************************************************************)
(* C5: the i-th row describes the i-th listed file, and no stage of a file *)
(* begins before every earlier file has its row.  Stated as claimed; the   *)
(* second row of C1 shifts the rows of the later files.                    *)
(***************************************************************************)
C5_RowsInListingOrder ==
    /\ \A k \in 1..idx : \A j \in 1..(k - 1) : RowsOf(j) # {}
    /\ Returned =>
          \A r \in 1..Len(response.files) :
              /\ r <= Len(files)
              /\ origin[r] = r
              /\ Describes(response.files[r], files[r])

(***************************************************************************)
(* C6: when the client cannot be created or the listing fails, the caller  *)
(* gets status 500 with the failure's description and no ResultSet, and    *)
(* nothing was downloaded, extracted or sent to the model.                 *)
(***************************************************************************)
C6_ListingFailureAborts ==
    \A h \in Logged("list", {"error"}) :
        /\ pc = "done"
        /\ response.status = 500
        /\ DOMAIN response = {"status", "detail"}
        /\ response.detail # << >>
        /\ Len(hist) = 1
        /\ results = << >>
        /\ disk = {}
        /\ modelCalls = 0

\* The listing of a Drive that holds files failed.
C6_Witness ==
    /\ pc = "done"
    /\ response.status = 500
    /\ drive # << >>
    /\ Logged("list", {"error"}) # {}

(***************************************************************************)
(* C10, as claimed: every invocation of summarize_text makes exactly one   *)
(* call to the model, so the calls of a batch number the files whose       *)
(* download and extraction succeeded.                                      *)
(***************************************************************************)
C10_OneModelCallPerInvocation ==
    /\ modelCalls = Cardinality(Logged("summarize", SummarizeOutcomes))
    /\ Returned => modelCalls = Cardinality(Logged("extract", {"ok"}))

(***************************************************************************)
(* C10, amended: every invocation of summarize_text makes at most one call *)
(* to the model and never retries: exactly one when the client was         *)
(* created, none when OPENAI_API_KEY is not set.  summarize_text is        *)
(* invoked once per file whose download and extraction succeeded, so the   *)
(* calls of a batch number those files for which the client was created.   *)
(***************************************************************************)
C10_AtMostOneModelCall ==
    /\ modelCalls = Cardinality(Logged("summarize", {"ok", "call_failed"}))
    /\ Cardinality(Logged("summarize", SummarizeOutcomes))
         = Cardinality(Logged("extract", {"ok"})) - (IF pc = "summarize" THEN 1 ELSE 0)
    /\ \A g, h \in Logged("summarize", SummarizeOutcomes) :
          hist[g].file = hist[h].file => g = h

\* Two files were extracted; the model call of one failed and the other
\* found no API key: one call in all.
C10_Witness ==
    /\ Returned
    /\ Logged("summarize", {"call_failed"}) # {}
    /\ Logged("summarize", {"no_key"}) # {}
    /\ modelCalls = 1

(***************************************************************************)
(* Vocabulary of the listing properties.                                   *)
(***************************************************************************)
\* The media type a filter value stands for; "" for a value outside
\* pdf, docx, txt.
MediaTypeOf(value) ==
    IF Lower(value) = FT_PDF THEN MIME_PDF
    ELSE IF Lower(value) = FT_DOCX THEN MIME_DOCX
    ELSE IF Lower(value) = FT_TXT THEN MIME_TXT
    ELSE ""

\* The entry of the Drive a listed file comes from.
EntryOf(file_info) == drive[CHOOSE k \in 1..Len(drive) : drive[k].id = file_info.id]

(***************************************************************************)
(* C7: under a non-empty filter every returned file has the media type of  *)
(* one of the filter's values.  Stated as claimed; a filter whose values   *)
(* are all outside pdf, docx, txt adds no clause to the query.             *)
(***************************************************************************)
C7_FilterRestrictsMediaTypes ==
    (pc = "listed" /\ Truthy(request.file_types)) =>
        \A f \in 1..Len(files) :
            \E v \in 1..Len(request.file_types.items) :
                MediaTypeOf(request.file_types.items[v]) = files[f].mimeType

(***************************************************************************)
(* C8: every returned entry is a non-trashed, non-folder entry of the      *)
(* requested folder.  Stated as claimed; the query has no clause that      *)
(* excludes folders.                                                       *)
(***************************************************************************)
C8_OnlyFilesOfTheFolder ==
    pc = "listed" =>
        \A f \in 1..Len(files) :
            /\ EntryOf(files[f]).parent = request.folder_id
            /\ ~EntryOf(files[f]).trashed
            /\ files[f].mimeType # MIME_FOLDER

(***************************************************************************)
(* C9: the listing returns every file that matches the query, however many *)
(* there are.  Stated as claimed; only the first page of at most 100 files *)
(* is read.                                                                *)
(***************************************************************************)
C9_EveryMatchingFileReturned ==
    pc = "listed" =>
        \A k \in 1..Len(drive) :
            Matches(drive[k], BuildQuery(request.folder_id, request.file_types)) =>
                \E f \in 1..Len(files) : files[f].id = drive[k].id

(***************************************************************************)
(* Vocabulary of the dispatch properties.                                  *)
(***************************************************************************)
\* The path ends with the characters of ending in some letter case, after a
\* file name stem that is not empty and not made of dots only.
EndsWithIgnoringCase(path, ending) ==
    /\ Len(path) > Len(ending)
    /\ Lower(SubSeq(path, Len(path) - Len(ending) + 1, Len(path))) = ending
    /\ \E k \in 1..(Len(path) - Len(ending)) :
          /\ path[k] \notin {".", "/"}
          /\ \A m \in k..(Len(path) - Len(ending)) : path[m] # "/"

DOT_PDF == <<".", "p", "d", "f">>
DOT_DOCX == <<".", "d", "o", "c", "x">>
DOT_TXT == <<".", "t", "x", "t">>

\* What the claim says of one call on path: the parser of the extension and
\* no other, or else the unsupported-format error that carries the extension
\* and no parser.
DispatchedOnExtension(path, r) ==
    /\ EndsWithIgnoringCase(path, DOT_PDF) => r.parsers = <<"pdf">>
    /\ EndsWithIgnoringCase(path, DOT_DOCX) => r.parsers = <<"docx">>
    /\ EndsWithIgnoringCase(path, DOT_TXT) => r.parsers = <<"txt">>
    /\ (\A e \in {DOT_PDF, DOT_DOCX, DOT_TXT} : ~EndsWithIgnoringCase(path, e)) =>
          /\ r.parsers = << >>
          /\ r.kind = "raised"
          /\ r.exception = "ValueError"
          /\ r.message[1] = "Unsupported file type: "
          /\ LET carried == Tail(r.message)
             IN  /\ Lower(SubSeq(path, Len(path) - Len(carried) + 1, Len(path))) = carried
                 /\ carried # << >> => carried[1] = "."
                 /\ \A k \in 2..Len(carried) : carried[k] # "."

(***************************************************************************)
(* C11, as claimed: extract_text_from_file dispatches on the lower-cased   *)
(* extension only: the PDF, DOCX or TXT parser exactly for .pdf, .docx,    *)
(* .txt in any letter case, and for every other extension the              *)
(* unsupported-format error with the extension and no parser.              *)
(***************************************************************************)
C11_DispatchOnExtensionOnly ==
    pc = "returned" => DispatchedOnExtension(file_path, ret)

(***************************************************************************)
(* C11, amended: for a path that exists, extract_text_from_file dispatches *)
(* on the lower-cased extension as claimed; for a path that does not exist *)
(* it raises FileNotFoundError whatever the extension, and invokes no      *)
(* parser.                                                                 *)
(***************************************************************************)
C11_DispatchOnExtensionOfExistingFile ==
    pc = "returned" =>
        /\ file_path \in disk => DispatchedOnExtension(file_path, ret)
        /\ file_path \notin disk =>
              /\ ret.kind = "raised"
              /\ ret.exception = "FileNotFoundError"
              /\ ret.parsers = << >>

\* An existing file with an upper-case .DOCX extension went to the DOCX
\* parser.
C11_Witness ==
    /\ pc = "returned"
    /\ file_path \in disk
    /\ Len(file_path) > 5
    /\ SubSeq(file_path, Len(file_path) - 4, Len(file_path)) = <<".", "D", "O", "C", "X">>
    /\ ret.parsers = <<"docx">>

(***************************************************************************)
(* Vocabulary of the truncation property.                                  *)
(***************************************************************************)
\* The text placed in a prompt built for the document label: what stands
\* between "Content:" and "Summary:".
PlacedText(prompt, label) ==
    SubSeq(prompt, Len(label) + 3, Len(prompt) - 1)

(***************************************************************************)
(* C12: when summarize_text builds its prompt, a text longer than 12000    *)
(* characters is placed as its first 12000 characters followed by the      *)
(* truncation marker, and a text of at most 12000 characters is placed     *)
(* unchanged, with no marker.                                              *)
(***************************************************************************)
C12_InputTruncatedToBudget ==
    (pc = "returned" /\ ret.prompted) =>
        LET label == IF doc_name = << >> THEN <<"Untitled">> ELSE doc_name
            placed == PlacedText(ret.prompt, label)
        IN  /\ ret.prompt[Len(label) + 2] = "\n\nContent:\n"
            /\ ret.prompt[Len(ret.prompt)] = "\n\nSummary:"
            /\ Len(text) > 12000 =>
                  /\ Len(placed) = 12001
                  /\ \A k \in 1..12000 : placed[k] = text[k]
                  /\ placed[12001] = "...\n[Content truncated]"
            /\ Len(text) <= 12000 =>
                  /\ placed = text
                  /\ \A k \in 1..Len(placed) : placed[k] # "...\n[Content truncated]"

\* A prompt was built for a text of 12001 characters and carries the marker.
C12_Witness ==
    /\ pc = "returned"
    /\ ret.prompted
    /\ Len(text) = 12001
    /\ ret.prompt[Len(ret.prompt) - 1] = "...\n[Content truncated]"

(***************************************************************************)
(* Vocabulary of the dashboard properties.                                 *)
(***************************************************************************)
\* The last request was download_csv (download_pdf) and a file was rendered.
CsvRendered == event.op = "download_csv" /\ http.status = 200
PdfRendered == event.op = "download_pdf" /\ http.status = 200

\* The last request was a summarize that failed.
SummarizeFailed == event.op = "summarize" /\ http.status # 200

\* The rows of the ResultSet of the last summarize request answered 200.
LastRows == lastOk.result.files

\* Rows 2.. of the CSV are the given results in their order, six cells each,
\* the File URL cell empty for a result without url.
CsvRowsFollow(rows, given) ==
    /\ Len(rows) = Len(given) + 1
    /\ \A k \in 1..Len(given) :
          /\ Len(rows[k + 1]) = 6
          /\ rows[k + 1][1] = given[k].name
          /\ rows[k + 1][2] = given[k].type
          /\ rows[k + 1][3] = given[k].size
          /\ rows[k + 1][4] = given[k].summary
          /\ "url" \notin DOMAIN given[k] => rows[k + 1][5] = ""
          /\ rows[k + 1][6] = given[k].status

(***************************************************************************)
(* C13, as claimed: the CSV header is File Name, Type, Size, Summary,      *)
(* Status, with File URL before Status only when the results carry urls;   *)
(* one row per result follows, in order.                                   *)
(***************************************************************************)
C13_CsvHeaderFollowsUrls ==
    CsvRendered =>
        /\ http.rows[1] =
              IF \E k \in 1..Len(LastRows) : "url" \in DOMAIN LastRows[k]
              THEN <<"File Name", "Type", "Size", "Summary", "File URL", "Status">>
              ELSE <<"File Name", "Type", "Size", "Summary", "Status">>
        /\ Len(http.rows) = Len(LastRows) + 1

(***************************************************************************)
(* C13, amended: the CSV header is always File Name, Type, Size, Summary,  *)
(* File URL, Status, whether or not a result carries a url; exactly one    *)
(* row per result follows, in input order, and the File URL cell of a      *)
(* result without url is empty.                                            *)
(***************************************************************************)
C13_CsvHeaderAlwaysHasUrl ==
    CsvRendered =>
        /\ http.rows[1] = <<"File Name", "Type", "Size", "Summary", "File URL", "Status">>
        /\ CsvRowsFollow(http.rows, LastRows)

\* A CSV of three results was rendered; no result carries a url.
C13_Witness ==
    /\ CsvRendered
    /\ Len(http.rows) = 4
    /\ \A k \in 1..3 : "url" \notin DOMAIN LastRows[k]

(***************************************************************************)
(* C14, as claimed: a failed summarize is answered by exactly one of three *)
(* errors: cannot-connect (503) for a connection failure, timeout (504)    *)
(* for a timeout, and the generic error (500) with the failure's           *)
(* description for everything else.                                        *)
(***************************************************************************)
C14_ThreeErrorClasses ==
    SummarizeFailed =>
        LET raised == event.backend.kind = "raised"
            isConn == raised /\ event.backend.exc.conn
            isTimeout == raised /\ event.backend.exc.timeout
        IN  /\ isConn =>
                  /\ http.status = 503
                  /\ http.error[1] = "Cannot connect to AI service. Make sure FastAPI is running."
            /\ isTimeout =>
                  /\ http.status = 504
                  /\ http.error[1] = "Request timeout. The folder may be too large."
            /\ (~isConn /\ ~isTimeout) =>
                  /\ http.status = 500
                  /\ http.error[1] = "An error occurred: "
                  /\ Len(http.error) > 1

(***************************************************************************)
(* C14, amended: an exception of the backend call is answered by exactly   *)
(* one of three distinct errors, chosen by the first except clause that    *)
(* matches: cannot-connect (503) for a ConnectionError, a connect timeout  *)
(* included; timeout (504) for a Timeout that is no ConnectionError; the   *)
(* generic error (500) with str(e) for any other exception, a body that is *)
(* no JSON included.  The failures that raise nothing are answered apart:  *)
(* 400 for a missing folder_id, and the backend's own status with          *)
(* "FastAPI service error: " and its body for a non-200 answer.            *)
(***************************************************************************)
C14_ErrorClassByExceptClause ==
    SummarizeFailed =>
        LET raised == event.backend.kind = "raised"
            exc == event.backend.exc
        IN  /\ (raised /\ exc.conn) =>
                  http = [status |-> 503,
                          error |-> <<"Cannot connect to AI service. Make sure FastAPI is running.">>]
            /\ (raised /\ exc.timeout /\ ~exc.conn) =>
                  http = [status |-> 504,
                          error |-> <<"Request timeout. The folder may be too large.">>]
            /\ (raised /\ ~exc.timeout /\ ~exc.conn) =>
                  http = [status |-> 500, error |-> <<"An error occurred: ">> \o exc.text]
            /\ ~event.body.json =>
                  /\ http.status = 500
                  /\ http.error[1] = "An error occurred: "
                  /\ Len(http.error) > 1
            /\ (event.body.json /\ event.body.folder_id = "") =>
                  http = [status |-> 400, error |-> <<"folder_id is required">>]
            /\ event.backend.kind = "response" =>
                  /\ http.status = event.backend.status
                  /\ http.error = <<"FastAPI service error: ">> \o event.backend.text

\* The connection to the backend timed out and the answer is 503.
C14_Witness ==
    /\ SummarizeFailed
    /\ event.backend.kind = "raised"
    /\ event.backend.exc.name = "ConnectTimeout"
    /\ http.status = 503

(***************************************************************************)
(* Vocabulary of the PDF properties.                                       *)
(***************************************************************************)
\* The positions of the page breaks among the elements, and the blocks they
\* were emitted after.
PageBreaks(elements) == {e \in 1..Len(elements) : elements[e].kind = "PageBreak"}
BrokenAfter(elements) == {elements[e].block : e \in PageBreaks(elements)}

\* The blocks appear in the ResultSet's order, each headed by its file name.
BlocksInOrder(elements, given) ==
    /\ \A e \in 1..(Len(elements) - 1) : elements[e].block <= elements[e + 1].block
    /\ \A k \in 1..Len(given) :
          \E e \in 1..Len(elements) :
              /\ elements[e].block = k
              /\ elements[e].kind = "Paragraph"
              /\ elements[e].part = "header"
              /\ elements[e].content = given[k].name

(***************************************************************************)
(* C15, as claimed: in the PDF a page break follows every block whose      *)
(* 1-based index is a multiple of 3, floor(n/3) page breaks for n blocks.  *)
(***************************************************************************)
C15_PageBreakAfterEveryThirdBlock ==
    PdfRendered =>
        LET n == Len(LastRows)
        IN  /\ BlocksInOrder(http.elements, LastRows)
            /\ BrokenAfter(http.elements) = {k \in 1..n : k % 3 = 0}
            /\ Cardinality(PageBreaks(http.elements)) = n \div 3

(***************************************************************************)
(* C15, amended: in the PDF a page break follows every block whose 1-based *)
(* index is a multiple of 3 except the last block, so n blocks get         *)
(* floor((n-1)/3) page breaks (none for n = 0); a page break is the last   *)
(* element of its block.                                                   *)
(***************************************************************************)
C15_PageBreakBetweenGroupsOfThree ==
    PdfRendered =>
        LET n == Len(LastRows)
            elements == http.elements
        IN  /\ BlocksInOrder(elements, LastRows)
            /\ BrokenAfter(elements) = {k \in 1..n : k % 3 = 0 /\ k # n}
            /\ Cardinality(PageBreaks(elements)) = IF n = 0 THEN 0 ELSE (n - 1) \div 3
            /\ \A e \in PageBreaks(elements) :
                  /\ e < Len(elements)
                  /\ elements[e + 1].block = elements[e].block + 1

\* A PDF of six results was rendered with one page break.
C15_Witness ==
    /\ PdfRendered
    /\ Len(LastRows) = 6
    /\ Cardinality(PageBreaks(http.elements)) = 1

(***************************************************************************)
(* C16: in one session download_csv answers 400 "No results available"     *)
(* exactly while no summarize request was answered 200 by the backend, and  *)
(* otherwise renders the ResultSet of the most recent such request, also    *)
(* one without files; a summarize request that fails leaves last_results    *)
(* as it was.                                                               *)
(***************************************************************************)
C16_CsvOfLastSuccessfulSummarize ==
    /\ "last_results" \in DOMAIN session <=> lastOk.has
    /\ lastOk.has => session.last_results = lastOk.result
    /\ event.op = "download_csv" =>
          /\ http.status = 400 <=> ~lastOk.has
          /\ ~lastOk.has => http.body[1] = "No results available. Please run a summarization first."
          /\ lastOk.has =>
                /\ http.status = 200
                /\ CsvRowsFollow(http.rows, lastOk.result.files)

\* A summarize answered 200 with no files, and download_csv rendered it: the
\* header alone.
C16_Witness ==
    /\ event.op = "download_csv"
    /\ lastOk.has
    /\ lastOk.result.files = << >>
    /\ http.status = 200
    /\ Len(http.rows) = 1

=============================================================================
